---- MODULE Spec2Model ----
(***************************************************************************)
(* Model of novec's BlockStorage<T> (src/src/block_storage.rs): a block    *)
(* arena with a free-run index, best-fit create, merge-on-free remove,     *)
(* generation-based key invalidation and the Block<T> view; of NoVec<T>    *)
(* (src/src/novec.rs), a vector whose vacant entries form a free list; and *)
(* of GenerationStorage<T> (src/src/generation.rs), a slot vector with     *)
(* generation-stamped ids.                                                 *)
(*                                                                         *)
(* Rust indices are 0-based; the tag and element vectors are TLA+          *)
(* sequences read through At/SetAt, which shift by one.                    *)
(***************************************************************************)
EXTENDS Integers, Sequences, FiniteSets, Bags, TLC

\* ---------------------------------------------------------------- bounds
MaxBlockSize == 2   \* block_size given to BlockStorage::new is 1..MaxBlockSize
MaxBlocks    == 3   \* create is not called when it would grow the store past this
MaxSize      == 3   \* create(size) is called with size in 0..MaxSize
MaxKeys      == 2   \* BlockKeys the caller holds at once
MaxItems     == 2   \* distinct items the caller ever pushes
MaxGen       == 1   \* clear is called at most this many times
\* the bounds of SpecAlloc, whose caller never pushes an item
AllocMaxBlocks == 6
AllocMaxSize   == 3
AllocMaxKeys   == 3
\* the bounds of SpecGen, whose caller clears the storage again and again
GenMaxBlocks == 2
GenMaxSize   == 2
GenMaxKeys   == 2
GenMaxGen    == 3
\* the bounds of SpecNoVec and SpecNoVecInsert
NvMaxLen   == 4     \* NoVec.entries is not grown past this length
NvMaxValue == 2     \* the values stored in a NoVec are 1..NvMaxValue
\* the bounds of SpecIds and SpecSlots
GsMaxItems == 4     \* items the caller ever pushes into a GenerationStorage

VARIABLES
    block_size,        \* BlockStorage.block_size
    generation,        \* BlockStorage.generation
    active_keys,       \* BlockStorage.active_keys : set of InternalBlockKey
    available_blocks,  \* BlockStorage.available_blocks : BTreeSet<usize>
    blocks,            \* BlockStorage.blocks : Vec<BlockIdx>
    data,              \* BlockStorage.data : Vec<MaybeUninit<T>>
    keys,              \* the caller's BlockKeys (and the views that own them): a bag
    dropped,           \* (idx, blocks) of current-generation keys the caller discarded
    nextItem,          \* the next fresh item the caller will push
    departed,          \* per item: how often it was returned by pop or destructed
    last,              \* the last operation, what it was applied to and its result
    clears,            \* how many times clear was called (ghost)
    fatal,             \* TRUE once an operation panicked
    alive,             \* FALSE once the storage has been dropped
    next,              \* NoVec.next
    entries,           \* NoVec.entries : Vec<Entry<T>>
    nvLast,            \* the last NoVec operation, its arguments and its result
    nvPanicked,        \* TRUE once a NoVec operation panicked
    objects,           \* GenerationStorage.objects : Vec<StorageObject<T>>
    available,         \* GenerationStorage.available : Vec<usize>
    issued,            \* the StorageIds push has returned, each with the item pushed
    gsLast             \* the last GenerationStorage operation and its result

vars == <<block_size, generation, active_keys, available_blocks, blocks, data,
          keys, dropped, nextItem, departed, last, clears, fatal, alive,
          next, entries, nvLast, nvPanicked, objects, available, issued, gsLast>>

\* the BlockStorage with its caller, the NoVec and the GenerationStorage
arena      == <<block_size, generation, active_keys, available_blocks, blocks, data,
                keys, dropped, nextItem, departed, last, clears, fatal, alive>>
novec      == <<next, entries, nvLast, nvPanicked>>
genstorage == <<objects, available, issued, gsLast>>

storage == <<block_size, generation, active_keys, available_blocks, blocks, data>>

\* ------------------------------------------------------------- data types
\* Option<T>
None    == [some |-> FALSE, val |-> 0]
Some(v) == [some |-> TRUE, val |-> v]

\* derived PartialOrd of Option: None < Some(_), Some(a) < Some(b) iff a < b
OptionLt(a, b) ==
    IF ~a.some THEN b.some
    ELSE IF ~b.some THEN FALSE
    ELSE a.val < b.val

\* enum BlockIdx
OwnedStart(n) == [kind |-> "OwnedStart", n |-> n]
Owned(s)      == [kind |-> "Owned", n |-> s]
EmptyStart(n) == [kind |-> "EmptyStart", n |-> n]
Emtpy(s)      == [kind |-> "Emtpy", n |-> s]

is_empty_start(tag) == tag.kind = "EmptyStart"
is_owned_start(tag) == tag.kind = "OwnedStart"

\* MaybeUninit::uninit(): a slot that holds no item
Uninit == 0

\* struct InternalBlockKey
InternalBlockKey(idx, n) == [idx |-> idx, blocks |-> n]

\* struct BlockKey, as the caller has it: state is "held" while the caller holds
\* the key and "view" while a Block view owns it; born is the number of clears
\* that preceded its creation (a ghost field)
BlockKey(idx, n, gen, born) ==
    [idx |-> idx, blocks |-> n, generation |-> gen, born |-> born, state |-> "held"]
NoKey == [idx |-> 0, blocks |-> 0, generation |-> 0, born |-> 0, state |-> "none"]

Items == 1..MaxItems

\* 0-based access to a Vec
At(s, i)       == s[i + 1]
SetAt(s, i, v) == [s EXCEPT ![i + 1] = v]
InVec(s, i)    == i >= 0 /\ i < Len(s)

\* the last element of an ascending iteration instead of the first
MaxOf(S) == CHOOSE x \in S : \A y \in S : x >= y

Min(S) == CHOOSE x \in S : \A y \in S : x <= y

\* the record of an operation: its name, the key it was applied to (or returned),
\* its argument and the Option it returned (None when it returns nothing or
\* panicked)
Op(name, key, arg, ret) == [op |-> name, key |-> key, arg |-> arg, ret |-> ret]
NoOp == Op("new", NoKey, 0, None)

\* the record of a NoVec operation: its name, its index and value arguments, the
\* Option it returned (for push: Some(index)) and, for insert_at, which kind of
\* index it was given
NvOp(name, index, value, ret, kind) ==
    [op |-> name, index |-> index, value |-> value, ret |-> ret, kind |-> kind]
NvNoOp == NvOp("new", 0, 0, None, "")

\* StorageId
StorageId(index, gen) == [index |-> index, generation |-> gen]

\* the record of a GenerationStorage operation: its name, the id it was given (or
\* returned) and the Option it returned (contains: Some(1) for true)
GsOp(name, id, ret) == [op |-> name, id |-> id, ret |-> ret]
GsNoOp == GsOp("new", StorageId(0, 0), None)

\* ------------------------------------------------------------------ Init
\* BlockStorage::new(block_size)
Init ==
    /\ block_size \in 1..MaxBlockSize
    /\ generation = 0
    /\ active_keys = {}
    /\ available_blocks = {}
    /\ blocks = <<>>
    /\ data = <<>>
    /\ keys = EmptyBag
    /\ dropped = {}
    /\ nextItem = 1
    /\ departed = [i \in Items |-> 0]
    /\ last = NoOp
    /\ clears = 0
    /\ fatal = FALSE
    /\ alive = TRUE
    /\ next = 0
    /\ entries = <<>>
    /\ nvLast = NvNoOp
    /\ nvPanicked = FALSE
    /\ objects = <<>>
    /\ available = <<>>
    /\ issued = {}
    /\ gsLast = GsNoOp

\* ------------------------------------------------- element destruction
\* the destruction pass that stops one slot short
DestructedInAllButLast(d, start, allocated) ==
    {At(d, i) : i \in {j \in start..(start + allocated - 2) : InVec(d, j)}} \ {Uninit}

\* `std::mem::replace(value, MaybeUninit::uninit()); value.assume_init()` over
\* data[start..start + allocated]: the items in those slots are destructed
DestructedIn(d, start, allocated) ==
    {At(d, i) : i \in {j \in start..(start + allocated - 1) : InVec(d, j)}} \ {Uninit}

UninitRange(d, start, allocated) ==
    [i \in 1..Len(d) |->
        IF i - 1 >= start /\ i - 1 < start + allocated THEN Uninit ELSE d[i]]

\* one more departure (return by pop, or destruction) for every item of S
Depart(dep, S) == [i \in Items |-> IF i \in S THEN dep[i] + 1 ELSE dep[i]]

\* BlockStorage::clear_data: the items destructed by the pass over the
\* OwnedStart blocks (before both vectors are cleared)
ClearDataDestructs(b, d, bs) ==
    UNION {DestructedIn(d, i * bs, At(b, i).n) :
              i \in {j \in 0..(Len(b) - 1) : is_owned_start(At(b, j))}}

\* the slice data[idx..idx + allocated] of clear_data is out of range
ClearDataPanics(b, d, bs) ==
    \E i \in 0..(Len(b) - 1) :
        is_owned_start(At(b, i)) /\ i * bs + At(b, i).n > Len(d)

\* ---------------------------------------------------------------- create
\* the block count with the remainder always rounded up by one
RequiredBlocksPlusOne(size, bs) == (size \div bs) + 1

\* required_blocks = size / block_size + (size % block_size > 0) as usize
RequiredBlocks(size, bs) == (size \div bs) + (IF size % bs > 0 THEN 1 ELSE 0)

\* the update of (min_diff, block_id) in the scan: `if Some(diff) < min_diff`,
\* with min_diff an Option that starts as None
TakesCandidate(diff, min_diff) == OptionLt(Some(diff), min_diff)

\* the loop over available_blocks.iter() (ascending) of create; rest is the part
\* of the index not yet visited.  panic: get_empty_count on a tag that is not an
\* EmptyStart (or an index past the end of blocks)
RECURSIVE Scan(_, _, _, _, _)
Scan(b, rest, required_blocks, block_id, min_diff) ==
    IF rest = {} THEN [panic |-> FALSE, block_id |-> block_id]
    ELSE LET block_idx == Min(rest) IN
         IF ~InVec(b, block_idx) \/ ~is_empty_start(At(b, block_idx))
         THEN [panic |-> TRUE, block_id |-> None]
         ELSE LET size == At(b, block_idx).n
                  diff == size - required_blocks
              IN IF size < required_blocks
                 THEN Scan(b, rest \ {block_idx}, required_blocks, block_id, min_diff)
                 ELSE IF diff = 0
                 THEN [panic |-> FALSE, block_id |-> Some(block_idx)]
                 ELSE IF TakesCandidate(diff, min_diff)
                 THEN Scan(b, rest \ {block_idx}, required_blocks,
                           Some(block_idx), Some(diff))
                 ELSE Scan(b, rest \ {block_idx}, required_blocks, block_id, min_diff)

\* `for _ in from..to { v.push(x) }`
RECURSIVE PushN(_, _, _)
PushN(v, n, x) == IF n <= 0 THEN v ELSE PushN(Append(v, x), n - 1, x)

\* one element slot for a block, whatever the block size
OneSlotEach(n, bs) == n

\* the element slots pushed with n blocks: `for _ in 0..self.block_size` each
SlotsFor(n, bs) == n * bs

\* the tail free run counted as no blocks at all
MissingIgnoresTail(size, empty_size) == size

\* one block more than the range empty_size..size
MissingPlusOne(size, empty_size) == size - empty_size + 1

\* the number of turns of `for _ in empty_size..size`
Missing(size, empty_size) == size - empty_size

\* BlockStorage::push_empty_blocks_until(size)
PushEmptyBlocksUntil(b, d, bs, size) ==
    LET lastTag == IF Len(b) = 0 THEN None ELSE Some(At(b, Len(b) - 1))
        lastEmtpy == lastTag.some /\ lastTag.val.kind = "Emtpy"
        lastStart == lastTag.some /\ lastTag.val.kind = "EmptyStart"
        parent == IF lastEmtpy THEN lastTag.val.n
                  ELSE IF lastStart THEN Len(b) - 1
                  ELSE Len(b)
        panic == lastEmtpy /\ (~InVec(b, parent) \/ ~is_empty_start(At(b, parent)))
        empty_size == IF lastEmtpy THEN (IF panic THEN 0 ELSE At(b, parent).n)
                      ELSE IF lastStart THEN lastTag.val.n
                      ELSE 0
        grown  == PushN(b, Missing(size, empty_size), Emtpy(parent))
        grownD == PushN(d, SlotsFor(Missing(size, empty_size), bs), Uninit)
    IN IF panic THEN [panic |-> TRUE, blocks |-> b, data |-> d, idx |-> parent]
       ELSE IF ~InVec(grown, parent)
       THEN [panic |-> TRUE, blocks |-> grown, data |-> grownD, idx |-> parent]
       ELSE [panic |-> FALSE, blocks |-> SetAt(grown, parent, EmptyStart(size)),
             data |-> grownD, idx |-> parent]

\* the chosen start left in the Free-Run Index
LeaveInIndex(avail, block_id) == avail

\* `self.available_blocks.remove(&block_id)`
TakeFromIndex(avail, block_id) == avail \ {block_id}

\* the second half of create: carve required_blocks out of the free run at
\* block_id (and leave the remainder, if any, as a free run)
Carve(b, avail, block_id, required_blocks) ==
    LET avail1 == TakeFromIndex(avail, block_id)
        okStart == InVec(b, block_id) /\ is_empty_start(At(b, block_id))
        empty_count == IF okStart THEN At(b, block_id).n ELSE 0
        idx == block_id + required_blocks
        block_count == empty_count - required_blocks
        split == empty_count > required_blocks
        inRange == block_id + (IF split THEN empty_count ELSE required_blocks) <= Len(b)
        b1 == IF split
              THEN [i \in 1..Len(b) |->
                      IF i - 1 = idx THEN EmptyStart(block_count)
                      ELSE IF i - 1 > idx /\ i - 1 < idx + block_count THEN Emtpy(idx)
                      ELSE b[i]]
              ELSE b
        b2 == [i \in 1..Len(b1) |->
                  IF i - 1 = block_id THEN OwnedStart(0)
                  ELSE IF i - 1 > block_id /\ i - 1 < block_id + required_blocks
                       THEN Owned(block_id)
                  ELSE b1[i]]
    IN IF ~okStart \/ ~inRange
       THEN [panic |-> TRUE, blocks |-> b, avail |-> avail1]
       ELSE [panic |-> FALSE, blocks |-> b2,
             avail |-> IF split THEN avail1 \cup {idx} ELSE avail1]

\* the key create returns once the run is carved (or the panic of the carving)
CarveResult(b, d, carve, block_id, required_blocks) ==
    IF carve.panic
    THEN [panic |-> TRUE, blocks |-> b, data |-> d, avail |-> carve.avail,
          idx |-> 0, nblocks |-> 0]
    ELSE [panic |-> FALSE, blocks |-> carve.blocks, data |-> d,
          avail |-> carve.avail, idx |-> block_id, nblocks |-> required_blocks]

\* create when no free run was chosen: the run is carved out of the free run that
\* push_empty_blocks_until made
CreateAfterPush(avail, required_blocks, ext) ==
    IF ext.panic
    THEN [panic |-> TRUE, blocks |-> ext.blocks, data |-> ext.data, avail |-> avail,
          idx |-> 0, nblocks |-> 0]
    ELSE CarveResult(ext.blocks, ext.data,
                     Carve(ext.blocks, avail, ext.idx, required_blocks),
                     ext.idx, required_blocks)

\* create after the search: extend the store when the search found nothing, then
\* carve the run
CreateAfterScan(b, d, avail, bs, required_blocks, scan) ==
    IF scan.panic
    THEN [panic |-> TRUE, blocks |-> b, data |-> d, avail |-> avail,
          idx |-> 0, nblocks |-> 0]
    ELSE IF scan.block_id.some
    THEN CarveResult(b, d, Carve(b, avail, scan.block_id.val, required_blocks),
                     scan.block_id.val, required_blocks)
    ELSE CreateAfterPush(avail, required_blocks,
                         PushEmptyBlocksUntil(b, d, bs, required_blocks))

\* BlockStorage::create(size), size > 0, as a function of the storage
CreateResult(b, d, avail, bs, size) ==
    CreateAfterScan(b, d, avail, bs, RequiredBlocks(size, bs),
                    Scan(b, avail, RequiredBlocks(size, bs), None, None))

\* MergeEnd without the test that the following block starts a free run
MergeEndAnyTag(b, next_block) ==
    IF InVec(b, next_block) THEN next_block + 1 ELSE next_block

\* MergeEnd that never absorbs the following run
MergeEndNoAbsorb(b, next_block) == next_block

\* the `end` of the merged free region: the run after the removed one is absorbed
\* when blocks.get(next_block) is an EmptyStart
MergeEnd(b, next_block) ==
    IF InVec(b, next_block) /\ is_empty_start(At(b, next_block))
    THEN next_block + At(b, next_block).n
    ELSE next_block

\* MergeStart without the arm for a preceding EmptyStart
MergeStartNoStartArm(b, idx) ==
    IF idx > 0 /\ InVec(b, idx - 1) /\ At(b, idx - 1).kind = "Emtpy"
    THEN At(b, idx - 1).n
    ELSE idx

\* MergeStart that takes the preceding block whatever its tag
MergeStartAnyTag(b, idx) == IF idx > 0 /\ InVec(b, idx - 1) THEN idx - 1 ELSE idx

\* MergeStart without the arm for a preceding Emtpy(parent)
MergeStartNoParentArm(b, idx) ==
    IF idx > 0 /\ InVec(b, idx - 1) /\ At(b, idx - 1).kind = "EmptyStart"
    THEN idx - 1
    ELSE idx

\* the `start` of the merged free region: the run before the removed one is
\* absorbed when blocks.get(idx - 1) is Emtpy(parent) or EmptyStart
MergeStart(b, idx) ==
    IF idx > 0 /\ InVec(b, idx - 1)
    THEN LET prev == At(b, idx - 1) IN
         IF prev.kind = "Emtpy" THEN prev.n
         ELSE IF prev.kind = "EmptyStart" THEN idx - 1
         ELSE idx
    ELSE idx

\* BlockStorage::remove(key) for a key of the current generation
RemoveResult(b, d, avail, bs, key) ==
    LET same == [panic |-> FALSE, noop |-> TRUE, blocks |-> b, data |-> d,
                 avail |-> avail, destructed |-> {}]
    IN IF ~InVec(b, key.idx) THEN [same EXCEPT !.panic = TRUE]
       ELSE IF ~is_owned_start(At(b, key.idx)) THEN same
       ELSE
       LET dstart == key.idx * bs
           allocated == At(b, key.idx).n
           next_block == key.idx + key.blocks
           end == MergeEnd(b, next_block)
           avail1 == IF InVec(b, next_block) /\ is_empty_start(At(b, next_block))
                     THEN avail \ {next_block} ELSE avail
           start == MergeStart(b, key.idx)
           avail2 == IF start # key.idx THEN avail1 \ {start} ELSE avail1
           count == end - start
           d1 == UninitRange(d, dstart, allocated)
           b1 == [i \in 1..Len(b) |->
                    IF i - 1 = start THEN EmptyStart(count)
                    ELSE IF i - 1 > start /\ i - 1 < start + count THEN Emtpy(start)
                    ELSE b[i]]
       IN IF dstart + allocated > Len(d)
          THEN [same EXCEPT !.panic = TRUE]
          ELSE IF start < 0 \/ start + count > Len(b) \/ count < 1
          THEN [panic |-> TRUE, noop |-> FALSE, blocks |-> b, data |-> d1,
                avail |-> avail2, destructed |-> DestructedIn(d, dstart, allocated)]
          ELSE [panic |-> FALSE, noop |-> FALSE, blocks |-> b1, data |-> d1,
                avail |-> avail2 \cup {start},
                destructed |-> DestructedIn(d, dstart, allocated)]

\* ------------------------------------------------------------ the caller
Held  == {key \in BagToSet(keys) : key.state = "held"}
Views == {key \in BagToSet(keys) : key.state = "view"}

\* a key that could be duplicated: two of it
Two(key) == SetToBag({key}) (+) SetToBag({key})

One(key) == SetToBag({key})

\* create, remove and clear take &mut self: no Block view borrows the storage
NoViews == Views = {}

Running == alive /\ ~fatal

\* the key's generation is the storage's (the test every get / remove starts with)
Current(key) == key.generation = generation

\* the run a view was built on: len is the count in its OwnedStart tag, the slice
\* is data[start..start + size]
ViewLen(key)   == At(blocks, key.idx).n

\* the slice taken to start at the block index, not at the block's first slot
ViewStartUnscaled(key) == key.idx

ViewStart(key) == key.idx * block_size
ViewCap(key)   == key.blocks * block_size

\* --------------------------------------------------------------- actions
\* create with the test for an empty request left out
AcceptsAnySize(size) == FALSE

\* `if size == 0 { panic!("Tried to create empty block") }`
RejectsSize(size) == size = 0

\* BlockStorage::create(size); the caller keeps the returned key
Create(size) ==
    /\ Running /\ NoViews
    /\ IF RejectsSize(size)
       THEN /\ fatal' = TRUE
            /\ last' = Op("create", NoKey, size, None)
            /\ UNCHANGED <<storage, keys, dropped, nextItem, departed, clears, alive>>
       ELSE \E res \in {CreateResult(blocks, data, available_blocks, block_size, size)} :
            LET key == BlockKey(res.idx, res.nblocks, generation, clears)
            IN /\ blocks' = res.blocks
               /\ data' = res.data
               /\ available_blocks' = res.avail
               /\ fatal' = res.panic
               /\ IF res.panic
                  THEN /\ last' = Op("create", NoKey, size, None)
                       /\ UNCHANGED <<active_keys, keys>>
                  ELSE /\ last' = Op("create", key, size, None)
                       /\ active_keys' =
                            active_keys \cup {InternalBlockKey(res.idx, res.nblocks)}
                       /\ keys' = keys (+) One(key)
               /\ UNCHANGED <<block_size, generation, dropped, nextItem, departed,
                              clears, alive>>

\* BlockStorage::get(key): the key moves into the call
Get(key) ==
    /\ Running
    /\ key \in Held
    /\ IF ~Current(key)
       THEN /\ last' = Op("get", key, 0, None)
            /\ keys' = keys (-) One(key)
            /\ UNCHANGED fatal
       ELSE IF \/ ~InVec(blocks, key.idx)
               \/ ~is_owned_start(At(blocks, key.idx))
               \/ ViewStart(key) + ViewCap(key) > Len(data)
       THEN /\ fatal' = TRUE
            /\ last' = Op("get", key, 0, None)
            /\ UNCHANGED keys
       ELSE /\ last' = Op("get", key, 0, Some(ViewLen(key)))
            /\ keys' = (keys (-) One(key)) (+) One([key EXCEPT !.state = "view"])
            /\ UNCHANGED fatal
    /\ UNCHANGED <<storage, dropped, nextItem, departed, clears, alive>>

\* BlockStorage::get_len(&key)
GetLen(key) ==
    /\ Running
    /\ key \in Held
    /\ IF ~Current(key)
       THEN last' = Op("get_len", key, 0, None) /\ UNCHANGED fatal
       ELSE IF ~InVec(blocks, key.idx) \/ ~is_owned_start(At(blocks, key.idx))
       THEN last' = Op("get_len", key, 0, None) /\ fatal' = TRUE
       ELSE last' = Op("get_len", key, 0, Some(ViewLen(key))) /\ UNCHANGED fatal
    /\ UNCHANGED <<storage, keys, dropped, nextItem, departed, clears, alive>>

\* return_key handing out the key of the run one block further on
ReturnedKeyShifted(key) == [key EXCEPT !.state = "held", !.idx = key.idx + 1]

\* the key Block::return_key hands back: `self.key`
ReturnedKey(key) == [key EXCEPT !.state = "held"]

\* Block::return_key
ReturnKey(key) ==
    /\ Running
    /\ key \in Views
    /\ keys' = (keys (-) One(key)) (+) One(ReturnedKey(key))
    /\ last' = Op("return_key", key, 0, None)
    /\ UNCHANGED <<storage, dropped, nextItem, departed, clears, fatal, alive>>

\* the caller lets a key (or the view that owns it) go out of scope
DropKey(key) ==
    /\ Running
    /\ key \in BagToSet(keys)
    /\ keys' = keys (-) One(key)
    /\ dropped' = IF Current(key)
                  THEN dropped \cup {InternalBlockKey(key.idx, key.blocks)}
                  ELSE dropped
    /\ last' = Op("drop_key", key, 0, None)
    /\ UNCHANGED <<storage, nextItem, departed, clears, fatal, alive>>

\* the capacity test with > for >=
IsFullOffByOne(len, cap) == len > cap

\* the capacity test of Block::push: `*self.len >= self.data.len()`
IsFull(len, cap) == len >= cap

\* Block::push(item) with a fresh item; `self.data[*self.len]` panics when the
\* index is outside the slice
Push(key) ==
    /\ Running
    /\ key \in Views
    /\ IF IsFull(ViewLen(key), ViewCap(key))
       THEN /\ last' = Op("push", key, nextItem, Some(nextItem))
            /\ UNCHANGED <<blocks, data, nextItem, fatal>>
       ELSE IF ViewLen(key) >= ViewCap(key)
       THEN /\ last' = Op("push", key, nextItem, None)
            /\ fatal' = TRUE
            /\ UNCHANGED <<blocks, data, nextItem>>
       ELSE /\ data' = SetAt(data, ViewStart(key) + ViewLen(key), nextItem)
            /\ blocks' = SetAt(blocks, key.idx, OwnedStart(ViewLen(key) + 1))
            /\ nextItem' = nextItem + 1
            /\ last' = Op("push", key, nextItem, None)
            /\ UNCHANGED fatal
    /\ UNCHANGED <<block_size, generation, active_keys, available_blocks, keys,
                   dropped, departed, clears, alive>>

\* pop without the test for an empty run
PopsAnyway(len) == FALSE

\* the test Block::pop starts with: `if *self.len == 0 { return None }`
NothingToPop(len) == len = 0

\* the slot Block::pop takes its value from: `self.data[*self.len]`
PopSlot(len) == len

\* Block::pop.  Reading a slot that holds no item (assume_init on uninit memory)
\* is undefined behaviour: the value returned is then any bit pattern, that of an
\* item pushed earlier or of none (Uninit).
Pop(key) ==
    /\ Running
    /\ key \in Views
    /\ IF NothingToPop(ViewLen(key))
       THEN /\ last' = Op("pop", key, 0, None)
            /\ UNCHANGED <<blocks, data, departed, fatal>>
       ELSE IF PopSlot(ViewLen(key)) >= ViewCap(key) \/ PopSlot(ViewLen(key)) < 0
       THEN /\ fatal' = TRUE
            /\ last' = Op("pop", key, 0, None)
            /\ UNCHANGED <<blocks, data, departed>>
       ELSE LET slot == ViewStart(key) + PopSlot(ViewLen(key))
                held == At(data, slot)
            IN /\ \E value \in (IF held = Uninit
                                THEN {Uninit} \cup (1..(nextItem - 1))
                                ELSE {held}) :
                      /\ last' = Op("pop", key, 0, Some(value))
                      /\ departed' = Depart(departed, {value} \ {Uninit})
               /\ data' = SetAt(data, slot, Uninit)
               /\ blocks' = SetAt(blocks, key.idx, OwnedStart(ViewLen(key) - 1))
               /\ UNCHANGED fatal
    /\ UNCHANGED <<block_size, generation, active_keys, available_blocks, keys,
                   dropped, nextItem, clears, alive>>

\* Block::get(index) and Block::get_mut(index), which differ only in the kind of
\* reference returned
ViewGet(key, index) ==
    /\ Running
    /\ key \in Views
    /\ IF index >= ViewLen(key)
       THEN last' = Op("index", key, 0, None) /\ UNCHANGED fatal
       ELSE IF index >= ViewCap(key)
       THEN last' = Op("index", key, 0, None) /\ fatal' = TRUE
       ELSE /\ last' = Op("index", key, 0, Some(At(data, ViewStart(key) + index)))
            /\ UNCHANGED fatal
    /\ UNCHANGED <<storage, keys, dropped, nextItem, departed, clears, alive>>

\* BlockStorage::remove(key): the key moves into the call; the record of the
\* operation notes, as its argument, how many items the call destructed
Remove(key) ==
    /\ Running /\ NoViews
    /\ key \in Held
    /\ keys' = keys (-) One(key)
    /\ IF ~Current(key)
       THEN /\ last' = Op("remove", key, 0, None)
            /\ UNCHANGED <<blocks, data, available_blocks, departed, fatal>>
       ELSE \E res \in {RemoveResult(blocks, data, available_blocks, block_size, key)} :
               /\ last' = Op("remove", key, Cardinality(res.destructed), None)
               /\ blocks' = res.blocks
               /\ data' = res.data
               /\ available_blocks' = res.avail
               /\ departed' = Depart(departed, res.destructed)
               /\ fatal' = res.panic
    /\ UNCHANGED <<block_size, generation, active_keys, dropped, nextItem, clears, alive>>

\* clear without the increment of the generation
SameGeneration(g) == g

\* the generation after clear: `self.generation += 1`
NextGeneration(g) == g + 1

\* BlockStorage::clear
Clear ==
    /\ Running /\ NoViews
    /\ generation' = NextGeneration(generation)
    /\ fatal' = ClearDataPanics(blocks, data, block_size)
    /\ departed' = Depart(departed, ClearDataDestructs(blocks, data, block_size))
    /\ blocks' = <<>>
    /\ data' = <<>>
    /\ active_keys' = {}
    /\ available_blocks' = {}
    /\ dropped' = {}
    /\ last' = Op("clear", NoKey, 0, None)
    /\ clears' = clears + 1
    /\ UNCHANGED <<block_size, keys, nextItem, alive>>

\* Drop for BlockStorage: clear_data, then the fields are dropped; it runs when
\* the owner lets the storage go or a panic unwinds through it (the views, which
\* borrow it, are gone by then)
Teardown ==
    /\ alive
    /\ fatal \/ NoViews
    /\ alive' = FALSE
    /\ departed' = Depart(departed, ClearDataDestructs(blocks, data, block_size))
    /\ blocks' = <<>>
    /\ data' = <<>>
    /\ active_keys' = {}
    /\ available_blocks' = {}
    /\ last' = Op("drop", NoKey, 0, None)
    /\ UNCHANGED <<block_size, generation, keys, dropped, nextItem, clears, fatal>>

\* the caller, within the bounds: at most MaxKeys keys at once, a store of at most
\* MaxBlocks blocks, at most MaxItems items pushed, at most MaxGen clears; it lets
\* go of its keys before it clears (SpecGen has the caller that keeps them)
Next ==
    \/ \E size \in 0..MaxSize :
          /\ BagCardinality(keys) < MaxKeys
          /\ Create(size)
          /\ Len(blocks') <= MaxBlocks
          /\ UNCHANGED <<novec, genstorage>>
    \/ \E key \in BagToSet(keys) : Get(key) /\ UNCHANGED <<novec, genstorage>>
    \/ \E key \in BagToSet(keys) : GetLen(key) /\ UNCHANGED <<novec, genstorage>>
    \/ \E key \in BagToSet(keys) : ReturnKey(key) /\ UNCHANGED <<novec, genstorage>>
    \/ \E key \in BagToSet(keys) : DropKey(key) /\ UNCHANGED <<novec, genstorage>>
    \/ \E key \in BagToSet(keys) : nextItem <= MaxItems /\ Push(key) /\ UNCHANGED <<novec, genstorage>>
    \/ \E key \in BagToSet(keys) : Pop(key) /\ UNCHANGED <<novec, genstorage>>
    \/ \E key \in BagToSet(keys) : \E index \in 0..ViewCap(key) : ViewGet(key, index) /\ UNCHANGED <<novec, genstorage>>
    \/ \E key \in BagToSet(keys) : Remove(key) /\ UNCHANGED <<novec, genstorage>>
    \/ clears < MaxGen /\ keys = EmptyBag /\ Clear /\ UNCHANGED <<novec, genstorage>>
    \/ Teardown /\ UNCHANGED <<novec, genstorage>>

Spec == Init /\ [][Next]_vars

\* a caller that only creates and removes runs (and at last drops the storage):
\* the allocator's bookkeeping on larger stores, three runs and more at once
NextAlloc ==
    \/ \E size \in 0..AllocMaxSize :
          /\ BagCardinality(keys) < AllocMaxKeys
          /\ Create(size)
          /\ Len(blocks') <= AllocMaxBlocks
          /\ UNCHANGED <<novec, genstorage>>
    \/ \E key \in BagToSet(keys) : Remove(key) /\ UNCHANGED <<novec, genstorage>>
    \/ Teardown /\ UNCHANGED <<novec, genstorage>>

SpecAlloc == Init /\ [][NextAlloc]_vars

\* a caller that keeps keys across several clears and pushes nothing
NextGen ==
    \/ \E size \in 1..GenMaxSize :
          /\ BagCardinality(keys) < GenMaxKeys
          /\ Create(size)
          /\ Len(blocks') <= GenMaxBlocks
          /\ UNCHANGED <<novec, genstorage>>
    \/ \E key \in BagToSet(keys) : Get(key) /\ UNCHANGED <<novec, genstorage>>
    \/ \E key \in BagToSet(keys) : GetLen(key) /\ UNCHANGED <<novec, genstorage>>
    \/ \E key \in BagToSet(keys) : ReturnKey(key) /\ UNCHANGED <<novec, genstorage>>
    \/ \E key \in BagToSet(keys) : Remove(key) /\ UNCHANGED <<novec, genstorage>>
    \/ clears < GenMaxGen /\ Clear /\ UNCHANGED <<novec, genstorage>>

SpecGen == Init /\ [][NextGen]_vars

\* ------------------------------------------------------- claim helpers
\* the block range [idx, idx + blocks) of a key
KeyRange(key) == key.idx..(key.idx + key.blocks - 1)

CurrentKeys == {key \in BagToSet(keys) : Current(key)}

IsFree(tag) == tag.kind \in {"EmptyStart", "Emtpy"}

\* the free runs of the Free-Run Index that create(size) could use
Fitting(required_blocks) ==
    {s \in available_blocks :
        /\ InVec(blocks, s)
        /\ is_empty_start(At(blocks, s))
        /\ At(blocks, s).n >= required_blocks}

SmallestSurplus(fits) == {s \in fits : \A t \in fits : At(blocks, s).n <= At(blocks, t).n}

\* the step just taken is a call of create with size > 0
CreateStep == last'.op = "create" /\ last'.arg > 0 /\ last' # last

\* --------------------------------------------------------------- claims
\* C1: any two outstanding BlockKeys of the current generation have disjoint
\* block ranges (and no key is issued twice while it is outstanding).
C1_KeysDisjoint ==
    \A k1, k2 \in CurrentKeys :
        IF k1 = k2 THEN CopiesIn(k1, keys) = 1
        ELSE KeyRange(k1) \cap KeyRange(k2) = {}

\* C1 witness: create has just returned a key that lies below another outstanding
\* key of the same generation, that is, in blocks a removed run gave back.
C1_Witness ==
    /\ last.op = "create" /\ last.key \in CurrentKeys
    /\ \E other \in CurrentKeys : other.idx > last.key.idx
    /\ ~fatal

\* C2: once the storage is torn down, every item that was pushed has left it
\* exactly once (returned by pop or destructed).
C2_EveryItemLeavesOnce ==
    ~alive => \A i \in 1..(nextItem - 1) : departed[i] = 1

\* C3: pop on a run with len > 0 returns the item at index len - 1 and decreases
\* len by one; on an empty run it returns None and changes nothing.
C3_PopReturnsLast ==
    [][\A key \in Views :
          (last'.op = "pop" /\ last'.key = key /\ last' # last) =>
             IF ViewLen(key) > 0
             THEN /\ ~fatal'
                  /\ last'.ret = Some(At(data, ViewStart(key) + ViewLen(key) - 1))
                  /\ At(blocks', key.idx) = OwnedStart(ViewLen(key) - 1)
             ELSE /\ last'.ret = None
                  /\ UNCHANGED <<blocks, data>>]_vars

\* C4: when several free runs fit, create allocates at the start of one with the
\* smallest surplus.
C4_BestFitAmongSeveral ==
    [][CreateStep =>
          LET fits == Fitting(RequiredBlocks(last'.arg, block_size))
          IN Cardinality(fits) >= 2 =>
                /\ last'.key # NoKey
                /\ last'.key.idx \in SmallestSurplus(fits)]_vars

\* C5: create grows the store only when no free run fits; when one fits the
\* number of blocks is unchanged and the new run lies inside a free run.
C5_GrowsOnlyWhenNothingFits ==
    [][CreateStep =>
          LET fits == Fitting(RequiredBlocks(last'.arg, block_size))
          IN /\ Len(blocks') > Len(blocks) => fits = {}
             /\ fits # {} =>
                   /\ Len(blocks') = Len(blocks)
                   /\ last'.key # NoKey
                   /\ \E s \in fits :
                         /\ s <= last'.key.idx
                         /\ last'.key.idx + last'.key.blocks <= s + At(blocks, s).n]_vars

\* C6: no two adjacent blocks are both tagged EmptyStart.
C6_NoAdjacentEmptyStarts ==
    \A i \in 0..(Len(blocks) - 2) :
        ~(is_empty_start(At(blocks, i)) /\ is_empty_start(At(blocks, i + 1)))

\* C6 witness: a remove has just merged the removed run with a free neighbour.
C6_Witness ==
    /\ last.op = "remove" /\ ~fatal
    /\ \E s \in available_blocks :
          /\ InVec(blocks, s) /\ is_empty_start(At(blocks, s))
          /\ s <= last.key.idx /\ last.key.idx < s + At(blocks, s).n
          /\ At(blocks, s).n > last.key.blocks

\* C7: after a remove every free run is maximal: the block before an
\* EmptyStart(n) at s and the block s + n are not free-tagged.
C7_FreeRunsMaximal ==
    (last.op = "remove" /\ ~fatal) =>
        \A s \in 0..(Len(blocks) - 1) :
            is_empty_start(At(blocks, s)) =>
                /\ s > 0 => ~IsFree(At(blocks, s - 1))
                /\ InVec(blocks, s + At(blocks, s).n) =>
                      ~IsFree(At(blocks, s + At(blocks, s).n))

\* C8: a key issued before a clear is stale for ever: get and get_len return
\* None for it, remove with it changes nothing, and none of them panics.
C8_StaleKeysStayStale ==
    [][\A key \in BagToSet(keys) :
          (key.born < clears /\ last'.key = key /\ last' # last) =>
             /\ last'.op \in {"get", "get_len"} =>
                   last'.ret = None /\ ~fatal' /\ UNCHANGED storage
             /\ last'.op = "remove" =>
                   ~fatal' /\ UNCHANGED <<storage, departed>>]_vars

\* C8 witness: remove was called with a key issued two or more clears ago while
\* newer runs were allocated.
C8_Witness ==
    /\ last.op = "remove" /\ last.key.born + 2 <= clears
    /\ Len(blocks) > 0
    /\ ~fatal

\* C9: push on a run with len < capacity stores the item at index len, adds one
\* to len and returns None; at capacity it returns the item and changes nothing.
C9_PushStoresOrReturns ==
    [][\A key \in Views :
          (last'.op = "push" /\ last'.key = key /\ last' # last) =>
             /\ ~fatal'
             /\ IF ViewLen(key) < ViewCap(key)
                THEN /\ last'.ret = None
                     /\ data' = SetAt(data, ViewStart(key) + ViewLen(key), last'.arg)
                     /\ blocks' = SetAt(blocks, key.idx, OwnedStart(ViewLen(key) + 1))
                ELSE /\ last'.ret = Some(last'.arg)
                     /\ UNCHANGED <<blocks, data>>]_vars

\* C9 witness: a push at capacity has just handed its item back.
C9_Witness ==
    /\ last.op = "push" /\ last.ret = Some(last.arg)
    /\ last.key \in Views /\ ViewLen(last.key) = ViewCap(last.key)
    /\ ~fatal

\* C10: push, pop, get and get_mut never end in a panic.
C10_ViewOpsNeverFatal ==
    fatal => last.op \notin {"push", "pop", "index"}

\* C11: create (with size > 0), get and remove never panic: none of them reads
\* a span or an element count from a block tag of the wrong kind.
C11_NoBookkeepingPanic ==
    fatal => ~(\/ last.op = "create" /\ last.arg > 0
               \/ last.op \in {"get", "remove"})

\* C12: the key create(size) returns has blocks = ceil(size / block_size), the
\* least n with n * block_size >= size, and the view of that key has room for
\* size elements inside the element vector.
C12_BlocksIsCeiling ==
    [][(CreateStep /\ last'.key # NoKey) =>
          /\ last'.key.blocks * block_size >= last'.arg
          /\ (last'.key.blocks - 1) * block_size < last'.arg
          /\ ViewCap(last'.key) >= last'.arg
          /\ ViewStart(last'.key) + ViewCap(last'.key) <= Len(data')]_vars

\* C12 witness: create has returned a key for a size that is more than one block
\* and not a multiple of the block size.
C12_Witness ==
    /\ last.op = "create" /\ last.key # NoKey
    /\ last.arg > block_size /\ last.arg % block_size # 0
    /\ ~fatal

\* C13: create(0) panics and leaves block tags, elements, Free-Run Index, active
\* keys and generation as they were.
C13_CreateZeroChangesNothing ==
    [][(last'.op = "create" /\ last'.arg = 0 /\ last' # last) =>
          fatal' /\ UNCHANGED storage]_vars

\* C13 witness: create(0) has panicked on a storage that holds an allocated run
\* and a free run.
C13_Witness ==
    /\ last.op = "create" /\ last.arg = 0 /\ fatal /\ alive
    /\ available_blocks # {}
    /\ \E i \in 0..(Len(blocks) - 1) : is_owned_start(At(blocks, i))

\* C14: when every created key has been removed and the store is not empty, the
\* Free-Run Index is {0}, block 0 is EmptyStart(number of blocks), and
\* create(number of blocks * block_size) returns the key {idx 0, blocks total}
\* and leaves the Free-Run Index empty.
C14_AllRemovedIsOneRun ==
    (Running /\ keys = EmptyBag /\ dropped = {} /\ Len(blocks) > 0) =>
        /\ available_blocks = {0}
        /\ At(blocks, 0) = EmptyStart(Len(blocks))
        /\ LET res == CreateResult(blocks, data, available_blocks, block_size,
                                   Len(blocks) * block_size)
           IN /\ ~res.panic
              /\ res.idx = 0 /\ res.nblocks = Len(blocks)
              /\ res.avail = {}

\* the step just taken is remove(key) of an allocated run of the current generation
RemoveStep(key) ==
    /\ last'.op = "remove" /\ last'.key = key /\ last' # last
    /\ Current(key)
    /\ InVec(blocks, key.idx) /\ is_owned_start(At(blocks, key.idx))

\* the free runs of the Free-Run Index of the next state that cover blocks lo..hi-1
CoveringAfter(lo, hi) ==
    {s \in available_blocks' :
        /\ InVec(blocks', s) /\ is_empty_start(At(blocks', s))
        /\ s <= lo /\ hi <= s + At(blocks', s).n}

\* C15: remove of a run whose following block is an EmptyStart absorbs that free
\* run: its start leaves the Free-Run Index, one free run of the index contains
\* the removed blocks and the neighbour's blocks, and a create for that run's
\* size returns one key covering both.
C15_AbsorbsRightNeighbour ==
    [][\A key \in Held :
          LET next_block == key.idx + key.blocks IN
          (/\ RemoveStep(key)
           /\ InVec(blocks, next_block) /\ is_empty_start(At(blocks, next_block))) =>
             /\ ~fatal'
             /\ next_block \notin available_blocks'
             /\ \E s \in CoveringAfter(key.idx, next_block + At(blocks, next_block).n) :
                   LET res == CreateResult(blocks', data', available_blocks', block_size,
                                           At(blocks', s).n * block_size)
                   IN /\ ~res.panic
                      /\ res.idx <= key.idx
                      /\ res.idx + res.nblocks >= next_block + At(blocks, next_block).n]_vars

\* no free run of the next state's index that starts below s has the span of s
LowestOfItsSpanAfter(s) ==
    \A t \in available_blocks' :
        (t < s /\ InVec(blocks', t) /\ is_empty_start(At(blocks', t))) =>
            At(blocks', t).n # At(blocks', s).n

\* C15 (amended): as C15, but the create for the merged run's size returns the key
\* of the merged run when no other free run of that very span starts lower in the
\* Free-Run Index (the search takes the first exact fit in ascending order).
C15_AbsorbsRightNeighbourLowest ==
    [][\A key \in Held :
          LET next_block == key.idx + key.blocks IN
          (/\ RemoveStep(key)
           /\ InVec(blocks, next_block) /\ is_empty_start(At(blocks, next_block))) =>
             /\ ~fatal'
             /\ next_block \notin available_blocks'
             /\ CoveringAfter(key.idx, next_block + At(blocks, next_block).n) # {}
             /\ \A s \in CoveringAfter(key.idx, next_block + At(blocks, next_block).n) :
                   LowestOfItsSpanAfter(s) =>
                      LET res == CreateResult(blocks', data', available_blocks',
                                              block_size, At(blocks', s).n * block_size)
                      IN /\ ~res.panic
                         /\ res.idx = s /\ res.nblocks = At(blocks', s).n
                         /\ s \notin res.avail]_vars

\* C15 witness: a remove has just absorbed the free run that followed the removed
\* run, and the merged run is in the Free-Run Index with the span of both.
C15_Witness ==
    /\ last.op = "remove" /\ ~fatal
    /\ last.key.idx \in available_blocks
    /\ is_empty_start(At(blocks, last.key.idx))
    /\ At(blocks, last.key.idx).n > last.key.blocks

\* the span of the free run that starts at s (0 when s does not start a free run)
SpanAt(b, s) == IF InVec(b, s) /\ is_empty_start(At(b, s)) THEN At(b, s).n ELSE 0

\* the start of the free run that the free-tagged block i names
StartOf(b, i) == IF At(b, i).kind = "Emtpy" THEN At(b, i).n ELSE i

\* C16: remove of a run whose preceding block is free (EmptyStart or
\* Emtpy(parent)) merges leftwards: the resulting free run starts at that
\* neighbour's start, its span is the neighbour's span plus the removed run's
\* blocks plus the span of an absorbed right neighbour, the Free-Run Index holds
\* that start, and the removed run's own idx is not in the index.
C16_MergesLeftwards ==
    [][\A key \in Held :
          (/\ RemoveStep(key)
           /\ key.idx > 0 /\ IsFree(At(blocks, key.idx - 1))) =>
             LET ns == StartOf(blocks, key.idx - 1)
                 span == SpanAt(blocks, ns) + key.blocks
                           + SpanAt(blocks, key.idx + key.blocks)
             IN /\ ~fatal'
                /\ is_empty_start(At(blocks, ns))
                /\ At(blocks', ns) = EmptyStart(span)
                /\ \A i \in (ns + 1)..(ns + span - 1) : At(blocks', i) = Emtpy(ns)
                /\ ns \in available_blocks'
                /\ key.idx \notin available_blocks']_vars

\* C16 witness: a remove has just merged the removed run into a free run of two
\* blocks or more that preceded it and into the free run that followed it.
C16_Witness ==
    /\ last.op = "remove" /\ ~fatal
    /\ \E s \in available_blocks :
          /\ s + 1 < last.key.idx
          /\ is_empty_start(At(blocks, s))
          /\ At(blocks, s).n > last.key.idx - s + last.key.blocks
    /\ last.key.idx \notin available_blocks

\* C17: remove of a run whose neighbours on both sides are allocated or absent
\* adds exactly its own idx to the Free-Run Index with span equal to the key's
\* blocks, and leaves every other free run, every other run's tags and elements,
\* and the number of blocks unchanged.
C17_IsolatedRemoveFrame ==
    [][\A key \in Held :
          LET next_block == key.idx + key.blocks IN
          (/\ RemoveStep(key)
           /\ key.idx = 0 \/ ~IsFree(At(blocks, key.idx - 1))
           /\ ~InVec(blocks, next_block) \/ ~IsFree(At(blocks, next_block))) =>
             /\ ~fatal'
             /\ key.idx \notin available_blocks
             /\ available_blocks' = available_blocks \cup {key.idx}
             /\ At(blocks', key.idx) = EmptyStart(key.blocks)
             /\ Len(blocks') = Len(blocks) /\ Len(data') = Len(data)
             /\ \A i \in 0..(Len(blocks) - 1) :
                   i \notin KeyRange(key) => At(blocks', i) = At(blocks, i)
             /\ \A j \in 0..(Len(data) - 1) :
                   (j < ViewStart(key) \/ j >= ViewStart(key) + ViewCap(key)) =>
                      At(data', j) = At(data, j)]_vars

\* C17 witness: the run just removed lies behind an allocated run that holds an
\* item, in front of which another run was freed before: two separate free runs.
C17_Witness ==
    /\ last.op = "remove" /\ ~fatal
    /\ last.key.idx \in available_blocks
    /\ \E s \in available_blocks :
          /\ s < last.key.idx
          /\ is_empty_start(At(blocks, s))
          /\ \E i \in (s + 1)..(last.key.idx - 1) :
                is_owned_start(At(blocks, i)) /\ At(blocks, i).n > 0

\* the free runs of the Free-Run Index whose span is exactly required_blocks
ExactFits(required_blocks) ==
    {s \in available_blocks : SpanAt(blocks, s) = required_blocks}

\* C18: if the Free-Run Index holds a free run whose block count equals
\* required_blocks, create returns the lowest-start such run, removes that start
\* from the index, leaves no remainder free run and does not grow the store.
C18_ExactFitLowestStart ==
    [][CreateStep =>
          LET required_blocks == RequiredBlocks(last'.arg, block_size)
              exact == ExactFits(required_blocks)
          IN exact # {} =>
                /\ ~fatal' /\ last'.key # NoKey
                /\ last'.key.idx \in exact
                /\ \A t \in exact : last'.key.idx <= t
                /\ last'.key.blocks = required_blocks
                /\ available_blocks' = available_blocks \ {last'.key.idx}
                /\ Len(blocks') = Len(blocks)]_vars

\* C18 witness: create has taken the lower of two free runs of exactly the
\* required block count; the higher one is still in the Free-Run Index.
C18_Witness ==
    /\ last.op = "create" /\ last.key # NoKey /\ ~fatal
    /\ \E t \in available_blocks :
          /\ t > last.key.idx
          /\ SpanAt(blocks, t) = last.key.blocks
          /\ \E i \in (last.key.idx + 1)..(t - 1) : is_owned_start(At(blocks, i))

\* C19: when no free run fits and the last blocks of the store are a free run of
\* k < required_blocks blocks starting at s, create grows that run in place: the
\* key is {idx s, blocks required_blocks}, the store grows by exactly
\* required_blocks - k blocks, and s is no longer in the Free-Run Index.
C19_GrowsTailRunInPlace ==
    [][CreateStep =>
          LET required_blocks == RequiredBlocks(last'.arg, block_size) IN
          \A s \in available_blocks :
             (/\ Fitting(required_blocks) = {}
              /\ SpanAt(blocks, s) > 0
              /\ s + SpanAt(blocks, s) = Len(blocks)
              /\ SpanAt(blocks, s) < required_blocks) =>
                /\ ~fatal' /\ last'.key # NoKey
                /\ last'.key.idx = s /\ last'.key.blocks = required_blocks
                /\ Len(blocks') = Len(blocks) + required_blocks - SpanAt(blocks, s)
                /\ Len(data') = Len(blocks') * block_size
                /\ s \notin available_blocks']_vars

\* C19 witness: the only keys ever issued are {0, 1}, {1, 2} and, last, {1, 3} in
\* a store of four blocks: the last create grew the tail free run of two blocks
\* that the removed run {1, 2} left behind by one block.
C19_Witness ==
    /\ last.op = "create" /\ ~fatal
    /\ last.key.idx = 1 /\ last.key.blocks = 3
    /\ Len(blocks) = 4
    /\ active_keys = {InternalBlockKey(0, 1), InternalBlockKey(1, 2),
                      InternalBlockKey(1, 3)}

\* C20: when no free run fits and the store is empty or its last block is
\* allocated, create appends: the key's idx is the number of blocks before the
\* call and the store grows by exactly required_blocks.
C20_AppendsAtEnd ==
    [][CreateStep =>
          LET required_blocks == RequiredBlocks(last'.arg, block_size) IN
          (/\ Fitting(required_blocks) = {}
           /\ Len(blocks) = 0 \/ ~IsFree(At(blocks, Len(blocks) - 1))) =>
             /\ ~fatal' /\ last'.key # NoKey
             /\ last'.key.idx = Len(blocks) /\ last'.key.blocks = required_blocks
             /\ Len(blocks') = Len(blocks) + required_blocks
             /\ Len(data') = Len(blocks') * block_size
             /\ \A i \in 0..(Len(blocks) - 1) : At(blocks', i) = At(blocks, i)]_vars

\* C20 witness: three successive creates on a fresh storage lie one behind the
\* other in call order, the middle one of two blocks.
C20_Witness ==
    /\ last.op = "create" /\ last.key # NoKey /\ ~fatal
    /\ available_blocks = {}
    /\ active_keys = {InternalBlockKey(0, 1), InternalBlockKey(1, 2),
                      InternalBlockKey(3, last.key.blocks)}
    /\ last.key.idx = 3 /\ Len(blocks) = 3 + last.key.blocks

\* the step just taken is a call of clear
ClearStep == last'.op = "clear" /\ clears' = clears + 1

\* what clear leaves behind, the elements aside: the generation is one higher,
\* both vectors, the index and the active keys are empty, and whatever create
\* comes next returns a key with idx 0 on which get builds a view
ClearResets ==
    /\ ~fatal'
    /\ generation' = generation + 1
    /\ Len(blocks') = 0 /\ Len(data') = 0
    /\ available_blocks' = {} /\ active_keys' = {}
    /\ \A size \in 1..MaxSize :
          LET res == CreateResult(blocks', data', available_blocks', block_size, size)
          IN /\ ~res.panic /\ res.idx = 0
             /\ is_owned_start(At(res.blocks, 0))
             /\ res.nblocks * block_size <= Len(res.data)

\* C21: after clear the generation is one higher, the tag and element vectors
\* are empty, the Free-Run Index and the active keys are empty, every item that
\* was pushed and not popped has been destructed (so every item pushed so far
\* has left the storage exactly once), and the next create returns a key with
\* idx 0 that is valid for get.
C21_ClearResetsAndDestructs ==
    [][ClearStep =>
          /\ ClearResets
          /\ \A i \in 1..(nextItem - 1) : departed'[i] = 1]_vars

\* every clear resets the storage, whatever becomes of the elements
ClearAlwaysResets == [][ClearStep => ClearResets]_vars

\* the items held in slots that the element counts of the allocated runs cover
CountedItems ==
    UNION {DestructedIn(data, i * block_size, At(blocks, i).n) :
              i \in {j \in 0..(Len(blocks) - 1) : is_owned_start(At(blocks, j))}}

\* C22: when the storage is destroyed, every item that was pushed and has not
\* left it before (by pop, remove or clear) is destructed: afterwards no pushed
\* item is still live, whether or not the keys were returned.
C22_DropLeavesNothingLive ==
    [][(alive /\ ~alive') =>
          \A i \in 1..(nextItem - 1) : departed'[i] >= 1]_vars

\* every item that the element counts cover is destructed when the storage is
\* destroyed
DropDestructsCounted ==
    [][(alive /\ ~alive') => \A i \in CountedItems : departed'[i] >= 1]_vars

\* the items in slots [0, len) of the run of key
RunItems(key) == {At(data, ViewStart(key) + j) : j \in 0..(ViewLen(key) - 1)}

\* C23: remove(key) with a valid key destructs exactly the len items at indices
\* [0, len) of that run, each once, and no item of any other run: the number of
\* live items drops by exactly len, and no slot outside [0, len) of the run
\* changes.
C23_RemoveDestructsItsRun ==
    [][\A key \in Held :
          RemoveStep(key) =>
             /\ ~fatal'
             /\ Uninit \notin RunItems(key)
             /\ Cardinality(RunItems(key)) = ViewLen(key)
             /\ \A i \in Items :
                   departed'[i] = departed[i] + (IF i \in RunItems(key) THEN 1 ELSE 0)
             /\ \A j \in 0..(Len(data) - 1) :
                   At(data', j) = IF j >= ViewStart(key) /\ j < ViewStart(key) + ViewLen(key)
                                  THEN Uninit ELSE At(data, j)]_vars

\* C23 witness: a remove has just destructed an item of its run while another
\* allocated run still holds one.
C23_Witness ==
    /\ last.op = "remove" /\ last.arg >= 1 /\ ~fatal
    /\ \E i \in 0..(Len(blocks) - 1) :
          /\ is_owned_start(At(blocks, i)) /\ At(blocks, i).n >= 1
          /\ At(data, i * block_size) # Uninit

\* the runs that are allocated to a key: those of the caller's keys of the
\* current generation and those of the keys it discarded
AllocatedRuns ==
    {InternalBlockKey(key.idx, key.blocks) : key \in CurrentKeys} \cup dropped

\* C24: while the storage is in use, the element count of every allocated run
\* (the value in its OwnedStart tag) is at least 0 and at most
\* blocks * block_size.
C24_LenWithinCapacity ==
    Running =>
        \A run \in AllocatedRuns :
            /\ InVec(blocks, run.idx) /\ is_owned_start(At(blocks, run.idx))
            /\ At(blocks, run.idx).n >= 0
            /\ At(blocks, run.idx).n <= run.blocks * block_size

\* C24 witness: a push has just filled a run of capacity two or more: its element
\* count is its capacity.
C24_Witness ==
    /\ last.op = "push" /\ last.ret = None /\ Running
    /\ last.key \in Views
    /\ ViewCap(last.key) >= 2
    /\ ViewLen(last.key) = ViewCap(last.key)

\* C25: at most one live view exists per run: a key that is inside a view is
\* there once, is of the current generation, and no other key the caller has,
\* held or inside a view, addresses a block of its run.
C25_OneViewPerRun ==
    \A view \in Views :
        /\ CopiesIn(view, keys) = 1
        /\ Current(view)
        /\ \A key \in BagToSet(keys) \ {view} :
              Current(key) => KeyRange(key) \cap KeyRange(view) = {}

\* C25 witness: two views are live at once, over two different runs, the second
\* just obtained by get.
C25_Witness ==
    /\ last.op = "get" /\ last.ret.some /\ ~fatal
    /\ Cardinality(Views) = 2

\* the step just taken is the operation op applied to key
StepOn(op, key) == last'.op = op /\ last'.key = key /\ last' # last

\* the tag and the counted elements of the run of key are the same in the next
\* state
RunUntouched(key) ==
    /\ InVec(blocks', key.idx) /\ At(blocks', key.idx) = At(blocks, key.idx)
    /\ \A j \in 0..(ViewLen(key) - 1) :
          /\ InVec(data', ViewStart(key) + j)
          /\ At(data', ViewStart(key) + j) = At(data, ViewStart(key) + j)

\* C26: get, push k items, return_key, get again yields a view with len = k
\* whose elements 0..k-1 are the pushed items in push order, whatever is done to
\* other runs in between.  Step by step: a push stores its item at index len and
\* keeps the elements below; return_key hands back the key of the same run and
\* changes nothing; get answers with the run's element count and changes
\* nothing; and no operation on another key changes the count or the counted
\* elements of this run.
C26_RoundTripKeepsElements ==
    [][/\ \A key \in Views :
             /\ (StepOn("push", key) /\ ViewLen(key) < ViewCap(key)) =>
                   /\ At(blocks', key.idx) = OwnedStart(ViewLen(key) + 1)
                   /\ At(data', ViewStart(key) + ViewLen(key)) = last'.arg
                   /\ \A j \in 0..(ViewLen(key) - 1) :
                         At(data', ViewStart(key) + j) = At(data, ViewStart(key) + j)
             /\ StepOn("return_key", key) =>
                   /\ [key EXCEPT !.state = "held"] \in BagToSet(keys')
                   /\ UNCHANGED storage
       /\ \A key \in Held :
             (StepOn("get", key) /\ Current(key)) =>
                /\ ~fatal'
                /\ last'.ret = Some(ViewLen(key))
                /\ [key EXCEPT !.state = "view"] \in BagToSet(keys')
                /\ UNCHANGED storage
       /\ \A key \in CurrentKeys :
             (/\ last'.op \in {"create", "remove", "get", "get_len", "return_key",
                               "drop_key", "push", "pop", "index"}
              /\ last'.key # key /\ last' # last /\ ~fatal') =>
                RunUntouched(key)]_vars

\* C26 witness: get has just answered with len 2 for a run whose elements 0 and 1
\* are the items pushed first and second, in a storage in which another run was
\* created and removed.
C26_Witness ==
    /\ last.op = "get" /\ last.ret = Some(2) /\ ~fatal
    /\ [last.key EXCEPT !.state = "view"] \in Views
    /\ At(data, ViewStart(last.key)) = 1
    /\ At(data, ViewStart(last.key) + 1) = 2
    /\ available_blocks # {}

\* the blocks of a run
RunRange(run) == run.idx..(run.idx + run.blocks - 1)

\* C27: a run whose key was discarded stays allocated until the next clear: its
\* start block remains OwnedStart, its other blocks Owned, no free run of the
\* Free-Run Index starts in or reaches into its blocks, and no key issued since
\* overlaps it.
C27_DiscardedRunStaysAllocated ==
    Running =>
        \A run \in dropped :
            /\ InVec(blocks, run.idx + run.blocks - 1)
            /\ is_owned_start(At(blocks, run.idx))
            /\ \A i \in RunRange(run) \ {run.idx} : At(blocks, i) = Owned(run.idx)
            /\ \A s \in available_blocks :
                  (s..(s + SpanAt(blocks, s) - 1)) \cap RunRange(run) = {}
                  /\ s \notin RunRange(run)
            /\ \A key \in CurrentKeys : KeyRange(key) \cap RunRange(run) = {}

\* C27 witness: create has just reused freed blocks in front of a run whose key
\* was discarded earlier.
C27_Witness ==
    /\ last.op = "create" /\ last.key \in CurrentKeys /\ Running
    /\ \E run \in dropped :
          /\ last.key.idx < run.idx
          /\ Len(blocks) = run.idx + run.blocks

\* C28: when the free run in which create places the new run has more blocks
\* than required_blocks, the remainder is a free run after the call: its first
\* block is EmptyStart(block count - required_blocks), its other blocks are
\* Emtpy(that start), its start is in the Free-Run Index and the original start
\* is not.
C28_RemainderBecomesFreeRun ==
    [][(CreateStep /\ last'.key # NoKey) =>
          LET start == last'.key.idx
              required_blocks == last'.key.blocks
              block_count == SpanAt(blocks, start)
              rest == start + required_blocks
          IN (start \in available_blocks /\ block_count > required_blocks) =>
                /\ At(blocks', rest) = EmptyStart(block_count - required_blocks)
                /\ \A i \in (rest + 1)..(start + block_count - 1) :
                      At(blocks', i) = Emtpy(rest)
                /\ rest \in available_blocks'
                /\ start \notin available_blocks']_vars

\* C29: among free runs that all fit and have the same smallest surplus, create
\* selects the one with the lowest start.
C29_TieGoesToLowestStart ==
    [][CreateStep =>
          LET best == SmallestSurplus(Fitting(RequiredBlocks(last'.arg, block_size)))
          IN Cardinality(best) >= 2 =>
                /\ last'.key # NoKey
                /\ last'.key.idx \in best
                /\ \A t \in best : last'.key.idx <= t]_vars

\* C30: after every completed create, remove or clear, every index in the
\* Free-Run Index is the position of a block tagged EmptyStart.
C30_IndexNamesEmptyStarts ==
    (Running /\ last.op \in {"create", "remove", "clear"}) =>
        \A s \in available_blocks : InVec(blocks, s) /\ is_empty_start(At(blocks, s))

\* C30 witness: after a remove the Free-Run Index names two free runs, one of
\* them of two blocks or more.
C30_Witness ==
    /\ last.op = "remove" /\ Running
    /\ Cardinality(available_blocks) = 2
    /\ \E s \in available_blocks : SpanAt(blocks, s) >= 2

\* C31: after every completed create, remove or clear, every continuation tag
\* refers to the start of the run that contains it: for a block i tagged
\* Emtpy(s), block s is EmptyStart(n) with s < i < s + n; for a block i tagged
\* Owned(s), block s is OwnedStart and i lies in the block range of the run that
\* starts at s.
C31_ContinuationsNameTheirStart ==
    (Running /\ last.op \in {"create", "remove", "clear"}) =>
        \A i \in 0..(Len(blocks) - 1) :
            LET tag == At(blocks, i) IN
            /\ tag.kind = "Emtpy" =>
                  /\ tag.n < i /\ InVec(blocks, tag.n)
                  /\ is_empty_start(At(blocks, tag.n))
                  /\ i < tag.n + At(blocks, tag.n).n
            /\ tag.kind = "Owned" =>
                  /\ tag.n < i /\ InVec(blocks, tag.n)
                  /\ is_owned_start(At(blocks, tag.n))
                  /\ \E run \in AllocatedRuns : run.idx = tag.n /\ i \in RunRange(run)

\* the blocks of the free run that the Free-Run Index lists at s
FreeRange(s) == s..(s + SpanAt(blocks, s) - 1)

\* C32: when no key has been discarded, the runs of the outstanding keys and the
\* free runs of the Free-Run Index tile the store after every completed
\* operation: every block index lies in exactly one of them.
C32_RunsTileTheStore ==
    (Running /\ dropped = {}) =>
        \A i \in 0..(Len(blocks) - 1) :
            Cardinality({key \in CurrentKeys : i \in KeyRange(key)})
              + Cardinality({s \in available_blocks : i \in FreeRange(s)}) = 1

\* C33: the element vector's length is the tag vector's length times
\* block_size, so the slots [idx * block_size, (idx + blocks) * block_size) of
\* every outstanding key of the current generation lie inside the element
\* vector.
C33_VectorsInStep ==
    /\ Len(data) = Len(blocks) * block_size
    /\ Running =>
          \A key \in CurrentKeys :
              (key.idx + key.blocks) * block_size <= Len(data)

\* C33 witness: a create has just grown a tail free run in a store of blocks of
\* two slots: the last run issued ends where both vectors end.
C33_Witness ==
    /\ last.op = "create" /\ last.key \in CurrentKeys /\ Running
    /\ block_size = 2
    /\ InternalBlockKey(last.key.idx, 1) \in active_keys
    /\ last.key.blocks = 2
    /\ Len(data) = (last.key.idx + 2) * 2

\* the tags of all blocks of the run of key and all slots of its capacity are
\* the same in the next state
RunKept(key) ==
    /\ \A i \in KeyRange(key) :
          InVec(blocks', i) /\ At(blocks', i) = At(blocks, i)
    /\ \A j \in (key.idx * block_size)..((key.idx + key.blocks) * block_size - 1) :
          InVec(data', j) /\ At(data', j) = At(data, j)

\* C34: create and remove called for other runs never change a live run: for
\* every outstanding key of the current generation the start block stays
\* OwnedStart with the same element count, the continuation blocks stay
\* Owned(idx), and the stored elements are unchanged across any create and any
\* remove of a different key.
C34_OtherRunsUntouched ==
    [][\A key \in CurrentKeys :
          (/\ last'.op \in {"create", "remove"} /\ last' # last
           /\ last'.key # key /\ ~fatal') =>
             /\ is_owned_start(At(blocks, key.idx))
             /\ \A i \in KeyRange(key) \ {key.idx} : At(blocks, i) = Owned(key.idx)
             /\ RunKept(key)]_vars

\* C34 witness: a create has just placed a run in front of a run of two blocks
\* that holds an item.
C34_Witness ==
    /\ last.op = "create" /\ last.key \in CurrentKeys /\ Running
    /\ \E key \in CurrentKeys :
          /\ key.idx > last.key.idx /\ key.blocks = 2
          /\ At(blocks, key.idx).n >= 1
          /\ At(data, key.idx * block_size) # Uninit

\* C35: push and pop through the view of one run change only that run's element
\* count and that run's own slots: all other tags, the kind of the run's own
\* start tag, all slots outside the run, the lengths of both vectors, the
\* Free-Run Index, the active keys and the generation are unchanged.
C35_ViewOpsStayInTheirRun ==
    [][\A key \in Views :
          (StepOn("push", key) \/ StepOn("pop", key)) =>
             /\ Len(blocks') = Len(blocks) /\ Len(data') = Len(data)
             /\ is_owned_start(At(blocks', key.idx))
             /\ \A i \in 0..(Len(blocks) - 1) :
                   i # key.idx => At(blocks', i) = At(blocks, i)
             /\ \A j \in 0..(Len(data) - 1) :
                   (j < key.idx * block_size \/ j >= (key.idx + key.blocks) * block_size)
                      => At(data', j) = At(data, j)
             /\ UNCHANGED <<available_blocks, active_keys, generation, block_size>>]_vars

\* C35 witness: a pop has just returned a value through the view of a run that
\* lies behind the run at block 0, which holds an item.
C35_Witness ==
    /\ last.op = "pop" /\ last.ret.some /\ Running
    /\ last.key \in Views /\ last.key.idx > 0
    /\ At(blocks, 0).kind = "OwnedStart" /\ At(blocks, 0).n >= 1

\* ================================================================ NoVec<T>
\* Entry<T>: Data(T), or Next(usize)
EntryData(v) == [kind |-> "Data", val |-> v]
EntryNext(n) == [kind |-> "Next", val |-> n]

is_next(e) == e.kind = "Next"
is_data(e) == e.kind = "Data"

\* Entry::option_ref
option_ref(e) == IF is_data(e) THEN Some(e.val) ELSE None

\* Entry::swap_next on entries[index]: the entry becomes Next(n) and the value it
\* held, if any, is handed back
swap_next(es, index, n) ==
    [entries |-> SetAt(es, index, EntryNext(n)), value |-> option_ref(At(es, index))]

\* Entry::swap_data on entries[index]
swap_data(es, index, input) ==
    [entries |-> SetAt(es, index, EntryData(input)), value |-> option_ref(At(es, index))]

\* NoVec::get
NoVec_get(es, index) ==
    IF index >= Len(es) THEN None ELSE option_ref(At(es, index))

\* NoVec::fill_to: entries len..size are appended, the one at i as Next(i + 1)
fill_to(es, size) ==
    IF Len(es) >= size THEN es
    ELSE es \o [k \in 1..(size - Len(es)) |-> EntryNext(Len(es) + k)]

\* NoVec::push: [next, entries, output, panic]; unwrap_next panics on Data
PushResult(nx, es, value) ==
    IF nx >= Len(es)
    THEN [next |-> nx + 1, entries |-> Append(es, EntryData(value)),
          output |-> nx, panic |-> FALSE]
    ELSE IF is_data(At(es, nx))
    THEN [next |-> nx, entries |-> es, output |-> nx, panic |-> TRUE]
    ELSE [next |-> At(es, nx).val, entries |-> SetAt(es, nx, EntryData(value)),
          output |-> nx, panic |-> FALSE]

\* the `while next <= index` loop of remove: it follows the list from `next` to
\* the first entry behind index, remembering the entry it came from
RECURSIVE Walk(_, _, _, _)
Walk(es, nxt, prev_val, index) ==
    IF nxt <= index
    THEN IF is_data(At(es, nxt))
         THEN [next |-> nxt, prev_val |-> nxt, panic |-> TRUE]
         ELSE Walk(es, At(es, nxt).val, nxt, index)
    ELSE [next |-> nxt, prev_val |-> prev_val, panic |-> FALSE]

\* a removal below the head that leaves the head where it was
HeadKept(index, nx) == nx

\* the head after a removal below it: `self.next = index`
HeadAfterRemove(index, nx) == index

\* NoVec::remove: [next, entries, value, panic]
NoVecRemoveResult(nx, es, index) ==
    IF index >= Len(es) \/ is_next(At(es, index))
    THEN [next |-> nx, entries |-> es, value |-> None, panic |-> FALSE]
    ELSE IF index < nx
    THEN LET sw == swap_next(es, index, nx)
         IN [next |-> HeadAfterRemove(index, nx), entries |-> sw.entries,
             value |-> sw.value, panic |-> FALSE]
    ELSE LET w == Walk(es, nx, nx, index)
         IN IF w.panic
            THEN [next |-> nx, entries |-> es, value |-> None, panic |-> TRUE]
            ELSE LET sw == swap_next(es, index, w.next)
                 IN [next |-> nx,
                     entries |-> SetAt(sw.entries, w.prev_val, EntryNext(index)),
                     value |-> sw.value, panic |-> FALSE]

\* `for i in (0..index).rev()`: the nearest entry below index that is a Next, or
\* -1 when there is none
PreviousNext(es, index) ==
    LET below == {i \in 0..(index - 1) : is_next(At(es, i))}
    IN IF below = {} THEN -1 ELSE CHOOSE i \in below : \A j \in below : i >= j

\* which kind of index insert_at is given
IndexKind(nx, es, index) ==
    IF index = nx THEN "head"
    ELSE IF index >= Len(es) THEN "past_end"
    ELSE IF is_data(At(es, index)) THEN "occupied"
    ELSE "vacant"

\* NoVec::insert_at: [next, entries, value, panic]
InsertAtResult(nx, es, index, value) ==
    IF index = nx
    THEN LET r == PushResult(nx, es, value)
         IN [next |-> r.next, entries |-> r.entries, value |-> None, panic |-> r.panic]
    ELSE LET filled == fill_to(es, index + 1)
         IN IF is_data(At(filled, index))
            THEN LET sw == swap_data(filled, index, value)
                 IN [next |-> nx, entries |-> sw.entries, value |-> sw.value,
                     panic |-> FALSE]
            ELSE LET n == At(filled, index).val
                     i == PreviousNext(filled, index)
                 IN [next |-> nx,
                     entries |-> IF i = -1 THEN filled
                                 ELSE swap_next(filled, i, n).entries,
                     value |-> None, panic |-> FALSE]

NvValues == 1..NvMaxValue

\* ---------------------------------------------------------- NoVec actions
\* NoVec::push(value)
NoVec_push(value) ==
    /\ ~nvPanicked
    /\ LET r == PushResult(next, entries, value)
       IN /\ next' = r.next
          /\ entries' = r.entries
          /\ nvPanicked' = r.panic
          /\ nvLast' = NvOp("push", r.output, value,
                            IF r.panic THEN None ELSE Some(r.output), "")

\* NoVec::remove(index)
NoVec_remove(index) ==
    /\ ~nvPanicked
    /\ LET r == NoVecRemoveResult(next, entries, index)
       IN /\ next' = r.next
          /\ entries' = r.entries
          /\ nvPanicked' = r.panic
          /\ nvLast' = NvOp("remove", index, 0, r.value, "")

\* NoVec::insert_at(index, value), which UnorderedStorage::insert forwards to
NoVec_insert_at(index, value) ==
    /\ ~nvPanicked
    /\ LET r == InsertAtResult(next, entries, index, value)
       IN /\ next' = r.next
          /\ entries' = r.entries
          /\ nvPanicked' = r.panic
          /\ nvLast' = NvOp("insert_at", index, value, r.value,
                            IndexKind(next, entries, index))

\* NoVec::get(index) as an operation of the caller
NoVec_get_call(index) ==
    /\ ~nvPanicked
    /\ nvLast' = NvOp("get", index, 0, NoVec_get(entries, index), "")
    /\ UNCHANGED <<next, entries, nvPanicked>>

\* NoVec::new() (beside a BlockStorage of block size 1 that is left alone)
InitNoVec == Init /\ block_size = 1

\* a caller that pushes, removes and reads
NextNoVec ==
    \/ \E value \in NvValues :
          /\ NoVec_push(value)
          /\ Len(entries') <= NvMaxLen
          /\ UNCHANGED <<arena, genstorage>>
    \/ \E index \in 0..NvMaxLen : NoVec_remove(index) /\ UNCHANGED <<arena, genstorage>>
    \/ \E index \in 0..NvMaxLen : NoVec_get_call(index) /\ UNCHANGED <<arena, genstorage>>

SpecNoVec == InitNoVec /\ [][NextNoVec]_vars

\* a caller that also inserts at indices of its choosing
NextNoVecInsert ==
    \/ \E value \in NvValues :
          /\ NoVec_push(value)
          /\ Len(entries') <= NvMaxLen
          /\ UNCHANGED <<arena, genstorage>>
    \/ \E index \in 0..NvMaxLen : NoVec_remove(index) /\ UNCHANGED <<arena, genstorage>>
    \/ \E index \in 0..NvMaxLen : NoVec_get_call(index) /\ UNCHANGED <<arena, genstorage>>
    \/ \E index \in 0..(NvMaxLen - 1) : \E value \in NvValues :
          /\ NoVec_insert_at(index, value)
          /\ Len(entries') <= NvMaxLen
          /\ UNCHANGED <<arena, genstorage>>

SpecNoVecInsert == InitNoVec /\ [][NextNoVecInsert]_vars

\* the vacant indices of the NoVec
Vacant(es) == {i \in 0..(Len(es) - 1) : is_next(At(es, i))}

\* the smallest vacant index above i, entries.len() when there is none
NextVacant(es, i) ==
    LET above == {j \in Vacant(es) : j > i}
    IN IF above = {} THEN Len(es) ELSE Min(above)

\* the indices the free list visits from `nxt` on
RECURSIVE FreeList(_, _, _)
FreeList(es, nxt, fuel) ==
    IF fuel = 0 \/ nxt >= Len(es) \/ is_data(At(es, nxt)) THEN {}
    ELSE {nxt} \cup FreeList(es, At(es, nxt).val, fuel - 1)

\* C36: after any sequence of push and remove on a NoVec, `next` is the smallest
\* vacant index (entries.len() when no entry is vacant) and every vacant entry
\* Next(j) names the next larger vacant index (or entries.len()); so a push
\* stores its value at the smallest vacant index and returns that index, and
\* remove(i) of an occupied i returns the value that was there and leaves
\* get(i) = None.
C36_AscendingFreeList ==
    /\ [](/\ ~nvPanicked
          /\ next = NextVacant(entries, -1)
          /\ \A i \in Vacant(entries) : At(entries, i).val = NextVacant(entries, i))
    /\ [][/\ (nvLast'.op = "push" /\ nvLast' # nvLast) =>
                /\ nvLast'.ret = Some(NextVacant(entries, -1))
                /\ NoVec_get(entries', NextVacant(entries, -1)) = Some(nvLast'.value)
                /\ \A i \in 0..(Len(entries) - 1) :
                      i # NextVacant(entries, -1) =>
                          NoVec_get(entries', i) = NoVec_get(entries, i)
          /\ \A i \in 0..(Len(entries) - 1) :
                (is_data(At(entries, i)) /\ nvLast'.op = "remove" /\ nvLast'.index = i
                    /\ nvLast' # nvLast) =>
                   /\ nvLast'.ret = Some(At(entries, i).val)
                   /\ NoVec_get(entries', i) = None
                   /\ \A j \in 0..(Len(entries) - 1) :
                         j # i => NoVec_get(entries', j) = NoVec_get(entries, j)]_vars

\* C36 witness: a remove above the head has just threaded index 2 into a free
\* list that already held index 0 and still holds a lower and a higher part:
\* 0 -> 2 -> entries.len()
C36_Witness ==
    /\ nvLast.op = "remove" /\ nvLast.index = 2 /\ nvLast.ret.some
    /\ next = 0
    /\ Len(entries) = 4
    /\ Vacant(entries) = {0, 2}
    /\ At(entries, 0) = EntryNext(2)
    /\ At(entries, 2) = EntryNext(4)

\* C39: NoVec::insert_at(index, value) stores the value for every kind of index
\* (the free-list head, another vacant slot, an occupied slot, an index past the
\* end): afterwards get(index) is the inserted value, the previous occupant (if
\* any) was returned, and the free list no longer contains index.
C39_InsertAtStores ==
    [][(nvLast'.op = "insert_at" /\ nvLast' # nvLast /\ ~nvPanicked') =>
          /\ NoVec_get(entries', nvLast'.index) = Some(nvLast'.value)
          /\ nvLast'.ret = NoVec_get(entries, nvLast'.index)
          /\ nvLast'.index \notin FreeList(entries', next', NvMaxLen + 1)]_vars

\* ====================================================== GenerationStorage<T>
\* StorageObject<T>
StorageObject(gen, item) == [generation |-> gen, item |-> item]

\* a slot that keeps its generation when it is reused
GenerationKept(g) == g

\* StorageObject::increase_generation: `wrapping_add(1)` on a u64, which wraps
\* only after 2^64 reuses of one slot, far beyond GsMaxItems pushes
increase_generation(g) == g + 1

\* Vec::pop on `available`: the last index
LastAvailable(avail) == avail[Len(avail)]

\* GenerationStorage::push: [objects, available, id]
GsPushResult(objs, avail, item) ==
    IF Len(avail) > 0
    THEN LET id  == LastAvailable(avail)
             gen == increase_generation(At(objs, id).generation)
         IN [objects |-> SetAt(objs, id, StorageObject(gen, Some(item))),
             available |-> SubSeq(avail, 1, Len(avail) - 1),
             id |-> StorageId(id, gen)]
    ELSE [objects |-> Append(objs, StorageObject(0, Some(item))),
          available |-> avail,
          id |-> StorageId(Len(objs), 0)]

\* GenerationStorage::remove(id: usize): [objects, available, value]
GsRemoveResult(objs, avail, id) ==
    IF id < Len(objs)
    THEN [objects |-> SetAt(objs, id, [At(objs, id) EXCEPT !.item = None]),
          available |-> IF At(objs, id).item.some THEN Append(avail, id) ELSE avail,
          value |-> At(objs, id).item]
    ELSE [objects |-> objs, available |-> avail, value |-> None]

\* GenerationStorage::get, and get_mut, which tests the same
GenerationStorage_get(objs, id) ==
    IF id.index >= Len(objs) THEN None
    ELSE IF At(objs, id.index).item.some /\ At(objs, id.index).generation = id.generation
    THEN At(objs, id.index).item
    ELSE None

\* GenerationStorage::contains
GenerationStorage_contains(objs, id) == GenerationStorage_get(objs, id).some

\* GenerationStorage::remove_id
RemoveIdResult(objs, avail, id) ==
    IF GenerationStorage_contains(objs, id)
    THEN GsRemoveResult(objs, avail, id.index)
    ELSE [objects |-> objs, available |-> avail, value |-> None]

\* the indices 0..Len-1 of a vector that satisfy a test, in ascending order
RECURSIVE Ascending(_, _)
Ascending(S, from) ==
    IF \A i \in S : i < from THEN <<>>
    ELSE IF from \in S THEN <<from>> \o Ascending(S, from + 1)
    ELSE Ascending(S, from + 1)

Live(objs) == {i \in 0..(Len(objs) - 1) : At(objs, i).item.some}

\* GenerationStorage::retain(f): every live object whose item f rejects is
\* emptied and its index pushed onto `available`, in index order
RetainResult(objs, avail, keep) ==
    LET gone == {i \in Live(objs) : At(objs, i).item.val \notin keep}
    IN [objects |-> [k \in 1..Len(objs) |->
                        IF (k - 1) \in gone THEN [objs[k] EXCEPT !.item = None]
                        ELSE objs[k]],
        available |-> avail \o Ascending(gone, 0)]

\* GenerationStorage::clear: `iter_mut().filter(is_some).enumerate()` numbers the
\* live objects 0, 1, 2, ... and it is that number which is pushed onto
\* `available` for each
ClearResult(objs, avail) ==
    [objects |-> [k \in 1..Len(objs) |-> [objs[k] EXCEPT !.item = None]],
     available |-> avail \o [k \in 1..Cardinality(Live(objs)) |-> k - 1]]

\* ----------------------------------------------- GenerationStorage actions
\* GenerationStorage::push(item), with a fresh item each time
GenerationStorage_push ==
    /\ Cardinality(issued) < GsMaxItems
    /\ LET item == Cardinality(issued) + 1
           r    == GsPushResult(objects, available, item)
       IN /\ objects' = r.objects
          /\ available' = r.available
          /\ issued' = issued \cup {[id |-> r.id, item |-> item]}
          /\ gsLast' = GsOp("push", r.id, Some(item))

\* GenerationStorage::remove(id: usize)
GenerationStorage_remove(id) ==
    /\ LET r == GsRemoveResult(objects, available, id)
       IN /\ objects' = r.objects
          /\ available' = r.available
          /\ gsLast' = GsOp("remove", StorageId(id, 0), r.value)
    /\ UNCHANGED issued

\* GenerationStorage::remove_id(id), which UnorderedStorage::remove forwards to
GenerationStorage_remove_id(id) ==
    /\ LET r == RemoveIdResult(objects, available, id)
       IN /\ objects' = r.objects
          /\ available' = r.available
          /\ gsLast' = GsOp("remove_id", id, r.value)
    /\ UNCHANGED issued

\* GenerationStorage::get(id)
GenerationStorage_get_call(id) ==
    /\ gsLast' = GsOp("get", id, GenerationStorage_get(objects, id))
    /\ UNCHANGED <<objects, available, issued>>

\* GenerationStorage::get_mut(id)
GenerationStorage_get_mut(id) ==
    /\ gsLast' = GsOp("get_mut", id, GenerationStorage_get(objects, id))
    /\ UNCHANGED <<objects, available, issued>>

\* GenerationStorage::contains(id)
GenerationStorage_contains_call(id) ==
    /\ gsLast' = GsOp("contains", id,
                      IF GenerationStorage_contains(objects, id) THEN Some(1) ELSE None)
    /\ UNCHANGED <<objects, available, issued>>

\* GenerationStorage::retain(f), f keeping the items of `keep`
GenerationStorage_retain(keep) ==
    /\ LET r == RetainResult(objects, available, keep)
       IN /\ objects' = r.objects
          /\ available' = r.available
    /\ gsLast' = GsOp("retain", StorageId(0, 0), None)
    /\ UNCHANGED issued

\* GenerationStorage::clear
GenerationStorage_clear ==
    /\ LET r == ClearResult(objects, available)
       IN /\ objects' = r.objects
          /\ available' = r.available
    /\ gsLast' = GsOp("clear", StorageId(0, 0), None)
    /\ UNCHANGED issued

\* GenerationStorage::new() (beside a BlockStorage of block size 1 that is left
\* alone)
InitGenerationStorage == Init /\ block_size = 1

\* the ids the caller has been given
IssuedIds == {r.id : r \in issued}

\* a caller that pushes, removes by index and by id, and looks ids up
NextIds ==
    \/ GenerationStorage_push /\ UNCHANGED <<arena, novec>>
    \/ \E id \in 0..GsMaxItems : GenerationStorage_remove(id) /\ UNCHANGED <<arena, novec>>
    \/ \E id \in IssuedIds : GenerationStorage_remove_id(id) /\ UNCHANGED <<arena, novec>>
    \/ \E id \in IssuedIds : GenerationStorage_get_call(id) /\ UNCHANGED <<arena, novec>>
    \/ \E id \in IssuedIds : GenerationStorage_get_mut(id) /\ UNCHANGED <<arena, novec>>
    \/ \E id \in IssuedIds : GenerationStorage_contains_call(id) /\ UNCHANGED <<arena, novec>>

SpecIds == InitGenerationStorage /\ [][NextIds]_vars

\* a caller that pushes, removes, retains and clears
NextSlots ==
    \/ GenerationStorage_push /\ UNCHANGED <<arena, novec>>
    \/ \E id \in 0..GsMaxItems : GenerationStorage_remove(id) /\ UNCHANGED <<arena, novec>>
    \/ \E keep \in SUBSET (1..GsMaxItems) :
          GenerationStorage_retain(keep) /\ UNCHANGED <<arena, novec>>
    \/ GenerationStorage_clear /\ UNCHANGED <<arena, novec>>

SpecSlots == InitGenerationStorage /\ [][NextSlots]_vars

\* the item pushed under an issued id is no longer in its slot
Stale(r) == At(objects, r.id.index).item # Some(r.item)

\* C37: in GenerationStorage a push that reuses a vacated slot returns the same
\* index with a generation one greater than the slot's previous generation, and
\* from then on get, get_mut, contains and remove_id with an id issued before
\* return None/false and leave the new item alone (over sequences of push,
\* remove and remove_id).
C37_StaleIdsAreDead ==
    /\ [](\A r \in issued :
            Stale(r) => /\ GenerationStorage_get(objects, r.id) = None
                        /\ ~GenerationStorage_contains(objects, r.id))
    /\ [][/\ (gsLast'.op = "push" /\ gsLast' # gsLast /\ Len(available) > 0) =>
                /\ gsLast'.id.index = LastAvailable(available)
                /\ gsLast'.id.generation =
                      At(objects, LastAvailable(available)).generation + 1
                /\ gsLast'.id \notin IssuedIds
          /\ \A r \in issued :
                (/\ Stale(r)
                 /\ gsLast'.op \in {"get", "get_mut", "contains", "remove_id"}
                 /\ gsLast'.id = r.id
                 /\ gsLast' # gsLast) =>
                   /\ gsLast'.ret = None
                   /\ UNCHANGED <<objects, available>>]_vars

\* C37 witness: remove_id has just been called with the id under which item 1
\* was pushed, while the slot of that id holds a later item under the next
\* generation
C37_Witness ==
    /\ gsLast.op = "remove_id" /\ gsLast.ret = None
    /\ \E r \in issued :
          /\ r.id = gsLast.id /\ r.item = 1
          /\ At(objects, r.id.index).item.some
          /\ At(objects, r.id.index).item.val > 1
          /\ At(objects, r.id.index).generation = r.id.generation + 1

\* the indices held by `available`
AvailableSet == {available[k] : k \in 1..Len(available)}

\* C38: after any sequence of push, remove, retain and clear on a
\* GenerationStorage the available list holds each vacant slot index exactly
\* once and no occupied index, so a push never returns the index of a slot that
\* holds a live item and never overwrites a live item.
C38_AvailableIsTheVacantSlots ==
    /\ [](/\ AvailableSet = (0..(Len(objects) - 1)) \ Live(objects)
          /\ Cardinality(AvailableSet) = Len(available))
    /\ [][(gsLast'.op = "push" /\ gsLast' # gsLast) =>
             /\ gsLast'.id.index \notin Live(objects)
             /\ \A i \in Live(objects) : At(objects', i) = At(objects, i)]_vars

====
